---- MODULE Spec2Model ----
(***************************************************************************)
(* Cobertura export of grcov (src/cobertura.rs): get_coverage builds the    *)
(* Coverage > Package > Class > Method > Line tree from the per-file        *)
(* coverage results, get_stats aggregates it, output_cobertura serialises   *)
(* it into an in-memory buffer and hands the buffer to the output sink.     *)
(*                                                                          *)
(* f64 counts are whole numbers far below 2^53 and are modelled as naturals;*)
(* an f64 quotient is modelled as the exact fraction in lowest terms, with  *)
(* den = 0 for the IEEE results of a division by zero (0/0 is NaN).         *)
(***************************************************************************)
EXTENDS Integers, Sequences, FiniteSets, TLC

\* ---------------------------------------------------------------- bounds
\* Line numbers of the generated files are 1..MaxLine.
MaxLine == 2
\* Hit counts of the generated files are 0..MaxHits.
MaxHits == 1
\* Branch lists of the generated files have at most MaxConds entries (the
\* scenario files and the files of the longer inputs have lists of 1 and 2).
MaxConds == 0
\* Input sequences have at most MaxFiles files.
MaxFiles == 2

\* ---------------------------------------------------------------- helpers
Min(S) == CHOOSE x \in S : \A y \in S : x <= y
Max(S) == CHOOSE x \in S : \A y \in S : y <= x

RECURSIVE Ascending(_)
\* the elements of a finite set of numbers in ascending order
\* (iteration order of BTreeMap keys / BTreeSet)
Ascending(S) ==
    IF S = {} THEN <<>> ELSE <<Min(S)>> \o Ascending(S \ {Min(S)})

RECURSIVE Gcd(_, _)
Gcd(a, b) == IF b = 0 THEN a ELSE Gcd(b, a % b)

RECURSIVE SumSeq(_)
SumSeq(s) == IF s = <<>> THEN 0 ELSE Head(s) + SumSeq(Tail(s))

RECURSIVE Flatten(_)
\* concatenation of a sequence of sequences
Flatten(ss) == IF ss = <<>> THEN <<>> ELSE Head(ss) \o Flatten(Tail(ss))

\* all orderings of a finite set, as sequences without repetition
Orderings(S) ==
    { o \in [1..Cardinality(S) -> S] : \A i, j \in DOMAIN o : i # j => o[i] # o[j] }

\* ---------------------------------------------------------------- f64 quotient
\* a / b on f64 values that are whole and non-negative
F64Div(a, b) ==
    IF b = 0
    THEN [num |-> IF a = 0 THEN 0 ELSE 1, den |-> 0]
    ELSE [num |-> a \div Gcd(a, b), den |-> b \div Gcd(a, b)]

F64Zero == [num |-> 0, den |-> 1]

\* ---------------------------------------------------------------- Line
Condition(i, b) ==
    [number |-> i, cond_type |-> "jump", coverage |-> IF b THEN 1 ELSE 0]

PlainLine(n, h) == [type |-> "Plain", number |-> n, hits |-> h, conditions |-> <<>>]
BranchLine(n, h, cs) == [type |-> "Branch", number |-> n, hits |-> h, conditions |-> cs]

\* Line::covered
covered(l) == l.hits > 0

\* line_from_number with conditions numbered from 1
line_from_number_OneBased(result_lines, result_branches, number) ==
    LET hits == IF number \in DOMAIN result_lines THEN result_lines[number] ELSE 0
    IN  IF number \in DOMAIN result_branches
        THEN LET branches == result_branches[number]
             IN  BranchLine(number, hits,
                     [i \in 1..Len(branches) |-> Condition(i, branches[i])])
        ELSE PlainLine(number, hits)

\* the closure line_from_number of get_coverage, over one file's maps;
\* Condition.number is the 0-based position of enumerate()
line_from_number(result_lines, result_branches, number) ==
    LET hits == IF number \in DOMAIN result_lines THEN result_lines[number] ELSE 0
    IN  IF number \in DOMAIN result_branches
        THEN LET branches == result_branches[number]
             IN  BranchLine(number, hits,
                     [i \in 1..Len(branches) |-> Condition(i - 1, branches[i])])
        ELSE PlainLine(number, hits)

\* ---------------------------------------------------------------- get_lines
\* Stats for Method: the method's own lines
MethodGetLines(m) == m.lines

\* Stats for Class: the lines of the methods (Vec<Method>::get_lines)
ClassGetLines(c) ==
    Flatten([i \in 1..Len(c.methods) |-> MethodGetLines(c.methods[i])])

\* Stats for Package: the lines of the classes (Vec<Class>::get_lines)
PackageGetLines(p) ==
    Flatten([i \in 1..Len(p.classes) |-> ClassGetLines(p.classes[i])])

\* Stats for Coverage: the lines of the packages (Vec<Package>::get_lines)
CoverageGetLines(cov) ==
    Flatten([i \in 1..Len(cov.packages) |-> PackageGetLines(cov.packages[i])])

\* ---------------------------------------------------------------- CoverageStats
\* from_lines with lines_covered adding up the hits
from_lines_SumHits(lines, same_lines) ==
    LET branchLines == SelectSeq(same_lines, LAMBDA l : l.type = "Branch")
        branches    == [i \in 1..Len(branchLines) |-> branchLines[i].conditions]
    IN  [ lines_valid      |-> Len(lines),
          lines_covered    |-> SumSeq([i \in 1..Len(lines) |-> lines[i].hits]),
          branches_covered |->
              SumSeq([i \in 1..Len(branches) |->
                  SumSeq([j \in 1..Len(branches[i]) |-> branches[i][j].coverage])]),
          branches_valid   |-> SumSeq([i \in 1..Len(branches) |-> Len(branches[i])]),
          complexity       |-> 0 ]

\* CoverageStats::from_lines; get_stats passes the same line sequence twice
from_lines(lines, same_lines) ==
    LET branchLines == SelectSeq(same_lines, LAMBDA l : l.type = "Branch")
        branches    == [i \in 1..Len(branchLines) |-> branchLines[i].conditions]
    IN  [ lines_valid      |-> Len(lines),
          lines_covered    |-> Cardinality({ i \in DOMAIN lines : covered(lines[i]) }),
          branches_covered |->
              SumSeq([i \in 1..Len(branches) |->
                  SumSeq([j \in 1..Len(branches[i]) |-> branches[i][j].coverage])]),
          branches_valid   |-> SumSeq([i \in 1..Len(branches) |-> Len(branches[i])]),
          complexity       |-> 0 ]

\* line_rate without the guard
line_rate_Unguarded(stats) == F64Div(stats.lines_covered, stats.lines_valid)

\* CoverageStats::line_rate
line_rate(stats) ==
    IF stats.lines_valid > 0
    THEN F64Div(stats.lines_covered, stats.lines_valid)
    ELSE F64Zero

\* branch_rate without the guard
branch_rate_Unguarded(stats) == F64Div(stats.branches_covered, stats.branches_valid)

\* CoverageStats::branch_rate
branch_rate(stats) ==
    IF stats.branches_valid > 0
    THEN F64Div(stats.branches_covered, stats.branches_valid)
    ELSE F64Zero

\* Stats::get_stats at each level
MethodGetStats(m)     == from_lines(MethodGetLines(m), MethodGetLines(m))
ClassGetStats(c)      == from_lines(ClassGetLines(c), ClassGetLines(c))
PackageGetStats(p)    == from_lines(PackageGetLines(p), PackageGetLines(p))
CoverageGetStats(cov) == from_lines(CoverageGetLines(cov), CoverageGetLines(cov))

\* ---------------------------------------------------------------- get_coverage
\* let all_lines: the keys of the lines map, ascending
all_lines(result) == Ascending(DOMAIN result.lines)

\* let end = last key + 1, 0 + 1 for an empty map (the line numbers of the
\* model are far below u32::MAX, where the addition would overflow)
end(result) ==
    (IF DOMAIN result.lines = {} THEN 0 ELSE Max(DOMAIN result.lines)) + 1

\* start_indexes after sort_unstable: every function's start, ascending,
\* repeated once per function that has it
start_indexes(result) ==
    LET starts == Ascending({ result.functions[f] : f \in DOMAIN result.functions })
    IN  Flatten([i \in 1..Len(starts) |->
            [k \in 1..Cardinality({ f \in DOMAIN result.functions :
                                      result.functions[f] = starts[i] }) |-> starts[i]]])

\* func_end that never looks at the other starts
func_end_FileEnd(result, start) == end(result)

\* func_end: the first of the sorted starts greater than function.start, else end
func_end(result, start) ==
    LET later == { i \in DOMAIN start_indexes(result) : start_indexes(result)[i] > start }
    IN  IF later = {} THEN end(result) ELSE start_indexes(result)[Min(later)]

\* lines_in_function with the end included
lines_in_function_Inclusive(result, start) ==
    SelectSeq(all_lines(result), LAMBDA x : x >= start /\ x <= func_end(result, start))

\* lines_in_function: all_lines filtered by start <= x < func_end
lines_in_function(result, start) ==
    SelectSeq(all_lines(result), LAMBDA x : x >= start /\ x < func_end(result, start))

\* the Method built for one entry of the function map; the name is the entry's
\* key (demangling is done by an external crate and changes only the name)
BuildMethod(result, name) ==
    LET numbers == lines_in_function(result, result.functions[name])
    IN  [ name      |-> name,
          signature |-> "",
          lines     |-> [i \in 1..Len(numbers) |->
                            line_from_number(result.lines, result.branches, numbers[i])] ]

\* orphan_lines drained only by the first function of the iteration
orphan_lines_FirstOnly(result, order, pool) ==
    IF order = <<>> THEN pool
    ELSE LET numbers == lines_in_function(result, result.functions[Head(order)])
         IN  pool \ { numbers[i] : i \in DOMAIN numbers }

RECURSIVE orphan_lines(_, _, _)
\* orphan_lines: the pool after the functions, taken in iteration order, have
\* each removed their lines_in_function from it
orphan_lines(result, order, pool) ==
    IF order = <<>> THEN pool
    ELSE LET numbers == lines_in_function(result, result.functions[Head(order)])
         IN  orphan_lines(result, Tail(order),
                 pool \ { numbers[i] : i \in DOMAIN numbers })

\* BuildClass with one Method per start offset
BuildClass_MergedStarts(result, order) ==
    LET orphans == Ascending(orphan_lines(result, order, DOMAIN result.lines))
        firsts  == SelectSeq(order, LAMBDA f :
                       \A i, j \in DOMAIN order :
                           (order[j] = f /\ i < j) =>
                               result.functions[order[i]] # result.functions[f])
    IN  [ name      |-> result.rel_path.file_stem,
          file_name |-> result.rel_path.to_str,
          lines     |-> [i \in 1..Len(orphans) |->
                            line_from_number(result.lines, result.branches, orphans[i])],
          methods   |-> [i \in 1..Len(firsts) |-> BuildMethod(result, firsts[i])] ]

\* the Class built for one file; order is the iteration order of the function map
BuildClass(result, order) ==
    LET orphans == Ascending(orphan_lines(result, order, DOMAIN result.lines))
    IN  [ name      |-> result.rel_path.file_stem,
          file_name |-> result.rel_path.to_str,
          lines     |-> [i \in 1..Len(orphans) |->
                            line_from_number(result.lines, result.branches, orphans[i])],
          methods   |-> [i \in 1..Len(order) |-> BuildMethod(result, order[i])] ]

\* the Package built for one file: exactly one Class
BuildPackage(result, order) ==
    [ name |-> result.rel_path.to_str, classes |-> <<BuildClass(result, order)>> ]

\* ---------------------------------------------------------------- XML events
Start(name, attrs) == [ev |-> "Start", name |-> name, attrs |-> attrs]
StartBare(name)    == [ev |-> "Start", name |-> name]
End(name)          == [ev |-> "End", name |-> name]
Empty(name, attrs) == [ev |-> "Empty", name |-> name, attrs |-> attrs]
Text(bytes)        == [ev |-> "Text", name |-> bytes]

\* write_lines: the events of one <lines> block
LineEvents(line) ==
    IF line.type = "Plain"
    THEN << Start("line", [number |-> line.number, hits |-> line.hits]),
            End("line") >>
    ELSE << Start("line", [number |-> line.number, hits |-> line.hits, branch |-> "true"]),
            StartBare("conditions") >>
         \o [i \in 1..Len(line.conditions) |->
                Empty("condition", [number   |-> line.conditions[i].number,
                                    type     |-> line.conditions[i].cond_type,
                                    coverage |-> line.conditions[i].coverage])]
         \o << End("conditions"), End("line") >>

\* write_lines without the end tag of the block
write_lines_Unclosed(lines) ==
    <<StartBare("lines")>>
    \o Flatten([i \in 1..Len(lines) |-> LineEvents(lines[i])])

write_lines(lines) ==
    <<StartBare("lines")>>
    \o Flatten([i \in 1..Len(lines) |-> LineEvents(lines[i])])
    \o <<End("lines")>>

\* the attributes of the root element (the timestamp is the wall clock's)
CoverageAttrs(stats) ==
    [ lines_covered    |-> stats.lines_covered,
      lines_valid      |-> stats.lines_valid,
      line_rate        |-> line_rate(stats),
      branches_covered |-> stats.branches_covered,
      branches_valid   |-> stats.branches_valid,
      branch_rate      |-> branch_rate(stats),
      complexity       |-> 0,
      version          |-> "1.9",
      timestamp        |-> "secs" ]

\* the rate attributes of package, class and method
RateAttrs(stats) ==
    [ line_rate   |-> line_rate(stats),
      branch_rate |-> branch_rate(stats),
      complexity  |-> stats.complexity ]

\* ---------------------------------------------------------------- inputs
\* a relative path whose stem is valid UTF-8, and one whose stem is not
\* (to_str() of the whole path is then None, and file_name is the default "")
GoodPath == [to_str |-> "src/main.rs", file_stem |-> "main", stem_utf8 |-> TRUE]
BadPath  == [to_str |-> "", file_stem |-> "", stem_utf8 |-> FALSE]

CovResult(path, lines, branches, functions) ==
    [rel_path |-> path, lines |-> lines, branches |-> branches, functions |-> functions]

LineNums  == 1..MaxLine
\* a function may start after the last line
Starts    == 1..(MaxLine + 1)
FuncNames == {"f", "g"}

LinesMaps    == UNION { [S -> 0..MaxHits] : S \in SUBSET LineNums }
BranchLists  == UNION { [1..n -> BOOLEAN] : n \in 0..MaxConds }
\* branch maps of the generated files have at most one key
BranchMaps   == UNION { [S -> BranchLists] :
                          S \in { T \in SUBSET LineNums : Cardinality(T) <= 1 } }
\* function maps with no, one or two entries
FunctionMaps == UNION { [N -> Starts] : N \in {{}, {"f"}, FuncNames} }

GenFiles ==
    { CovResult(GoodPath, l, b, f) :
        l \in LinesMaps, b \in BranchMaps, f \in FunctionMaps }

\* the input of tests::test_cobertura
ScenarioA ==
    CovResult(GoodPath,
        (1 :> 1) @@ (2 :> 1) @@ (3 :> 2) @@ (4 :> 1) @@ (5 :> 0) @@ (6 :> 0)
            @@ (8 :> 1) @@ (9 :> 1),
        (3 :> <<TRUE, FALSE>>) @@ (5 :> <<FALSE, FALSE>>),
        ("main" :> 1))

\* the input of tests::test_cobertura_double_lines
ScenarioB ==
    CovResult(GoodPath,
        (1 :> 2) @@ (3 :> 0) @@ (6 :> 2) @@ (7 :> 1) @@ (8 :> 2) @@ (9 :> 1)
            @@ (11 :> 1) @@ (12 :> 2),
        (8 :> <<TRUE, FALSE>>),
        ("test_fn" :> 6) @@ ("main1" :> 1) @@ ("main2" :> 1) @@ ("closure" :> 6)
            @@ ("main3" :> 1))

\* files of the inputs with several files: orphans only; two functions, a
\* branch and an orphan; two functions with one start; an unreadable stem;
\* three functions, the last starting after the last line
MultiFiles ==
    { CovResult(GoodPath, (1 :> 1) @@ (2 :> 0), <<>>, <<>>),
      CovResult(GoodPath, (1 :> 1) @@ (2 :> 0) @@ (3 :> 1), <<>>,
                ("f" :> 1) @@ ("g" :> 3) @@ ("h" :> 5)),
      CovResult(GoodPath, (1 :> 0) @@ (2 :> 1) @@ (3 :> 1),
                (3 :> <<TRUE, FALSE>>), ("f" :> 2) @@ ("g" :> 3)),
      CovResult(GoodPath, (1 :> 1), (1 :> <<TRUE>>), ("f" :> 1) @@ ("g" :> 1)),
      CovResult(BadPath, (1 :> 1), <<>>, ("f" :> 1)) }

InputSeqs ==
    {<<>>}
    \cup { <<r>> : r \in GenFiles \cup MultiFiles \cup {ScenarioA, ScenarioB} }
    \cup UNION { [1..n -> MultiFiles] : n \in 2..MaxFiles }

\* ---------------------------------------------------------------- state
VARIABLES
    results,    \* the input sequence (CovResultIter)
    next,       \* index of the next item the iterator yields
    packages,   \* the packages collected by get_coverage so far
    pc,         \* position in output_cobertura
    buf,        \* the events written to the in-memory writer
    pi, ci, mi, \* loop positions: package, class, method
    sink        \* the output sink: resolved?, write_all calls, bytes received

vars == <<results, next, packages, pc, buf, pi, ci, mi, sink>>

coverage == [sources |-> <<".">>, packages |-> packages]

Init ==
    /\ results \in InputSeqs
    /\ next = 1
    /\ packages = <<>>
    /\ pc = "get_coverage"
    /\ buf = <<>>
    /\ pi = 1 /\ ci = 1 /\ mi = 1
    /\ sink = [resolved |-> FALSE, writes |-> 0, bytes |-> <<>>]

\* get_coverage: the closure of results.map on the next item; the function map
\* is iterated in an order the hash map chooses; to_str().unwrap() panics on a
\* stem that is not UTF-8
MapResult ==
    /\ pc = "get_coverage"
    /\ next <= Len(results)
    /\ IF results[next].rel_path.stem_utf8
       THEN \E order \in Orderings(DOMAIN results[next].functions) :
                /\ packages' = Append(packages, BuildPackage(results[next], order))
                /\ next' = next + 1
                /\ pc' = pc
       ELSE /\ pc' = "panicked"
            /\ UNCHANGED <<packages, next>>
    /\ UNCHANGED <<results, buf, pi, ci, mi, sink>>

\* output_cobertura from the new writer to the opening packages tag
WriteHeader ==
    /\ pc = "get_coverage"
    /\ next > Len(results)
    /\ buf' = buf
            \o << [ev |-> "Decl", name |-> "1.0"],
                  [ev |-> "DocType", name |-> "coverage"],
                  Start("coverage", CoverageAttrs(CoverageGetStats(coverage))),
                  StartBare("sources") >>
            \o Flatten([i \in 1..Len(coverage.sources) |->
                   <<StartBare("source"), Text(coverage.sources[i]), End("source")>>])
            \o << End("sources"), StartBare("packages") >>
    /\ pi' = 1
    /\ pc' = "packages"
    /\ UNCHANGED <<results, next, packages, ci, mi, sink>>

\* for package in &coverage.packages: the package and classes start tags
PackageStart ==
    /\ pc = "packages"
    /\ pi <= Len(coverage.packages)
    /\ buf' = buf
            \o << Start("package",
                      [name |-> coverage.packages[pi].name]
                          @@ RateAttrs(PackageGetStats(coverage.packages[pi]))),
                  StartBare("classes") >>
    /\ ci' = 1
    /\ pc' = "classes"
    /\ UNCHANGED <<results, next, packages, pi, mi, sink>>

\* for class in &package.classes: the class and methods start tags
ClassStart ==
    /\ pc = "classes"
    /\ ci <= Len(coverage.packages[pi].classes)
    /\ LET class == coverage.packages[pi].classes[ci]
       IN  buf' = buf
               \o << Start("class",
                         [name |-> class.name, filename |-> class.file_name]
                             @@ RateAttrs(ClassGetStats(class))),
                     StartBare("methods") >>
    /\ mi' = 1
    /\ pc' = "methods"
    /\ UNCHANGED <<results, next, packages, pi, ci, sink>>

\* WriteMethod whose get_lines moves the lines out of the method
WriteMethod_Drains ==
    /\ pc = "methods"
    /\ mi <= Len(coverage.packages[pi].classes[ci].methods)
    /\ LET method == coverage.packages[pi].classes[ci].methods[mi]
       IN  buf' = buf
               \o << Start("method",
                         [name |-> method.name, signature |-> method.signature]
                             @@ RateAttrs(MethodGetStats(method))) >>
               \o write_lines(method.lines)
               \o << End("method") >>
    /\ packages' = [packages EXCEPT ![pi].classes[ci].methods[mi].lines = <<>>]
    /\ mi' = mi + 1
    /\ UNCHANGED <<results, next, pc, pi, ci, sink>>

\* for method in &class.methods: the method element with its lines
WriteMethod ==
    /\ pc = "methods"
    /\ mi <= Len(coverage.packages[pi].classes[ci].methods)
    /\ LET method == coverage.packages[pi].classes[ci].methods[mi]
       IN  buf' = buf
               \o << Start("method",
                         [name |-> method.name, signature |-> method.signature]
                             @@ RateAttrs(MethodGetStats(method))) >>
               \o write_lines(method.lines)
               \o << End("method") >>
    /\ mi' = mi + 1
    /\ UNCHANGED <<results, next, packages, pc, pi, ci, sink>>

\* after the methods: the methods end tag and the class's own lines; the
\* class loop body ends here
ClassLines ==
    /\ pc = "methods"
    /\ mi > Len(coverage.packages[pi].classes[ci].methods)
    /\ buf' = buf
            \o << End("methods") >>
            \o write_lines(coverage.packages[pi].classes[ci].lines)
    /\ ci' = ci + 1
    /\ pc' = "classes"
    /\ UNCHANGED <<results, next, packages, pi, mi, sink>>

\* after the class loop: the class, classes and package end tags
PackageEnd ==
    /\ pc = "classes"
    /\ ci > Len(coverage.packages[pi].classes)
    /\ buf' = buf \o << End("class"), End("classes"), End("package") >>
    /\ pi' = pi + 1
    /\ pc' = "packages"
    /\ UNCHANGED <<results, next, packages, ci, mi, sink>>

\* after the package loop: the packages and coverage end tags
WriteFooter ==
    /\ pc = "packages"
    /\ pi > Len(coverage.packages)
    /\ buf' = buf \o << End("packages"), End("coverage") >>
    /\ pc' = "resolve"
    /\ UNCHANGED <<results, next, packages, pi, ci, mi, sink>>

\* get_target_output_writable(output_file): the sink is opened, or the call
\* panics
ResolveSink ==
    /\ pc = "resolve"
    /\ \E ok \in BOOLEAN :
        IF ok
        THEN /\ sink' = [sink EXCEPT !.resolved = TRUE]
             /\ pc' = "write"
        ELSE /\ pc' = "panicked"
             /\ UNCHANGED sink
    /\ UNCHANGED <<results, next, packages, buf, pi, ci, mi>>

\* write_all whose error is dropped instead of unwrapped
WriteAll_ErrorIgnored ==
    /\ pc = "write"
    /\ \E n \in {0, Len(buf) \div 2, Len(buf)} :
        /\ sink' = [sink EXCEPT !.writes = @ + 1,
                                !.bytes = @ \o SubSeq(buf, 1, n)]
        /\ pc' = "done"
    /\ UNCHANGED <<results, next, packages, buf, pi, ci, mi>>

\* file.write_all(&result).unwrap(): the whole buffer reaches the sink, or the
\* write fails after some strict prefix of it and unwrap panics
WriteAll ==
    /\ pc = "write"
    /\ \E n \in {0, Len(buf) \div 2, Len(buf)} :
        /\ sink' = [sink EXCEPT !.writes = @ + 1,
                                !.bytes = @ \o SubSeq(buf, 1, n)]
        /\ pc' = IF n = Len(buf) THEN "done" ELSE "panicked"
    /\ UNCHANGED <<results, next, packages, buf, pi, ci, mi>>

Next ==
    \/ MapResult
    \/ WriteHeader
    \/ PackageStart
    \/ ClassStart
    \/ WriteMethod
    \/ ClassLines
    \/ PackageEnd
    \/ WriteFooter
    \/ ResolveSink
    \/ WriteAll

Spec == Init /\ [][Next]_vars

\* ================================================================ properties
\* what the input maps say, computed without the tree
MapLinesValid(r)   == Cardinality(DOMAIN r.lines)
MapLinesCovered(r) == Cardinality({ n \in DOMAIN r.lines : r.lines[n] > 0 })
MapBranchEntries(r) ==
    UNION { { <<n, i>> : i \in DOMAIN r.branches[n] } :
              n \in DOMAIN r.branches \cap DOMAIN r.lines }
MapBranchesValid(r)   == Cardinality(MapBranchEntries(r))
MapBranchesCovered(r) ==
    Cardinality({ e \in MapBranchEntries(r) : r.branches[e[1]][e[2]] })

\* the Line leaves below each kind of node, orphan lines of a Class included
MethodLeaves(m)  == m.lines
ClassLeaves(c)   == Flatten([i \in 1..Len(c.methods) |-> MethodLeaves(c.methods[i])])
                        \o c.lines
PackageLeaves(p) == Flatten([i \in 1..Len(p.classes) |-> ClassLeaves(p.classes[i])])
TreeLeaves(cov)  == Flatten([i \in 1..Len(cov.packages) |-> PackageLeaves(cov.packages[i])])

\* the conditions of the Branch leaves, as <<leaf, position>>
LeafConditions(leaves) ==
    UNION { { <<i, j>> : j \in DOMAIN leaves[i].conditions } :
              i \in { k \in DOMAIN leaves : leaves[k].type = "Branch" } }

\* stats are the counts over the given leaves
CountsLeaves(stats, leaves) ==
    /\ stats.lines_valid = Len(leaves)
    /\ stats.lines_covered = Cardinality({ i \in DOMAIN leaves : leaves[i].hits > 0 })
    /\ stats.branches_valid = Cardinality(LeafConditions(leaves))
    /\ stats.branches_covered =
           Cardinality({ e \in LeafConditions(leaves) :
                           leaves[e[1]].conditions[e[2]].coverage = 1 })

\* the attributes of the root element, once the header is in the buffer
HeaderWritten == Len(buf) >= 3
RootAttrs     == buf[3].attrs

\* the root element reports the counts of the maps of the single input file
RootReportsMap(r) ==
    /\ RootAttrs.lines_valid = MapLinesValid(r)
    /\ RootAttrs.lines_covered = MapLinesCovered(r)
    /\ RootAttrs.line_rate.num * MapLinesValid(r)
           = MapLinesCovered(r) * RootAttrs.line_rate.den
    /\ RootAttrs.line_rate.den > 0
    /\ RootAttrs.branches_valid = MapBranchesValid(r)
    /\ RootAttrs.branches_covered = MapBranchesCovered(r)
    /\ RootAttrs.branch_rate.num * MapBranchesValid(r)
           = MapBranchesCovered(r) * RootAttrs.branch_rate.den
    /\ RootAttrs.branch_rate.den > 0

DistinctStarts(r) ==
    \A f, g \in DOMAIN r.functions : f # g => r.functions[f] # r.functions[g]
SharedStart(r) ==
    \E f, g \in DOMAIN r.functions : f # g /\ r.functions[f] = r.functions[g]
FunctionStarts(r) == { r.functions[f] : f \in DOMAIN r.functions }
\* every line of the map is at or after some function's start
AllLinesClaimed(r) ==
    /\ DOMAIN r.functions # {}
    /\ \A n \in DOMAIN r.lines : Min(FunctionStarts(r)) <= n

\* C1: at every node of the built tree get_stats counts the Line leaves of the
\* node's subtree, the orphan lines of a Class included: lines_valid is their
\* number, lines_covered those with hits > 0, branches_valid the conditions of
\* the Branch leaves, branches_covered the conditions with coverage 1.
C1_StatsCountSubtreeLeaves ==
    /\ CountsLeaves(CoverageGetStats(coverage), TreeLeaves(coverage))
    /\ \A p \in DOMAIN packages :
        /\ CountsLeaves(PackageGetStats(packages[p]), PackageLeaves(packages[p]))
        /\ \A c \in DOMAIN packages[p].classes :
            /\ CountsLeaves(ClassGetStats(packages[p].classes[c]),
                            ClassLeaves(packages[p].classes[c]))
            /\ \A m \in DOMAIN packages[p].classes[c].methods :
                CountsLeaves(MethodGetStats(packages[p].classes[c].methods[m]),
                             MethodLeaves(packages[p].classes[c].methods[m]))

\* C2: for a single file in which functions share a start offset and every
\* line is claimed by a function (Scenario B), the root element reports the
\* counts of the lines and branches maps: 8 valid, 7 covered, rate 7/8, 2
\* branches valid, 1 covered, rate 1/2.
C2_SharedStartRootCounts ==
    (HeaderWritten /\ Len(results) = 1
        /\ SharedStart(results[1]) /\ AllLinesClaimed(results[1]))
    => RootReportsMap(results[1])

\* C3: for a single file whose functions have pairwise distinct starts, the
\* smallest of them at or before the first line (Scenario A), the root
\* element reports the counts of the lines map and of the branch lists of
\* the lines in it, and the rates covered / valid.
C3_DistinctStartRootCounts ==
    (HeaderWritten /\ Len(results) = 1
        /\ DistinctStarts(results[1]) /\ AllLinesClaimed(results[1]))
    => RootReportsMap(results[1])

\* C3 witness: Scenario A's header is written: 6 of 8 lines, rate 3/4, 1 of 4
\* branches, rate 1/4
C3_Witness ==
    /\ HeaderWritten
    /\ results = <<ScenarioA>>
    /\ RootAttrs.lines_covered = 6 /\ RootAttrs.lines_valid = 8
    /\ RootAttrs.line_rate = [num |-> 3, den |-> 4]
    /\ RootAttrs.branches_covered = 1 /\ RootAttrs.branches_valid = 4
    /\ RootAttrs.branch_rate = [num |-> 1, den |-> 4]

\* the places of a Class where line number n occurs: <<m, i>> for line i of
\* method m, <<0, i>> for orphan line i
Places(c, n) ==
    UNION { { <<m, i>> : i \in { k \in DOMAIN c.methods[m].lines :
                                   c.methods[m].lines[k].number = n } } :
              m \in DOMAIN c.methods }
    \cup { <<0, i>> : i \in { k \in DOMAIN c.lines : c.lines[k].number = n } }

LeafNumbers(c) == { ClassLeaves(c)[i].number : i \in DOMAIN ClassLeaves(c) }

\* C4: when the functions of a file have pairwise distinct starts, every line
\* number of the lines map occurs in exactly one place of the file's Class
\* (one line of one Method, or one orphan line), and no other number occurs.
C4_OnePlacePerLine ==
    \A p \in DOMAIN packages :
        DistinctStarts(results[p]) =>
            /\ \A n \in DOMAIN results[p].lines :
                   Cardinality(Places(packages[p].classes[1], n)) = 1
            /\ LeafNumbers(packages[p].classes[1]) = DOMAIN results[p].lines

\* C4 witness: a Class with an orphan line and two Methods with a line each
C4_Witness ==
    \E p \in DOMAIN packages :
        /\ DistinctStarts(results[p])
        /\ Len(packages[p].classes[1].lines) >= 1
        /\ Len(packages[p].classes[1].methods) = 2
        /\ \A m \in 1..2 : Len(packages[p].classes[1].methods[m].lines) >= 1

\* C5: the Class of a file has exactly one Method per entry of the function
\* map, none merged or dropped, and two functions with one start have the
\* same line list.
C5_OneMethodPerFunction ==
    \A p \in DOMAIN packages :
        LET methods == packages[p].classes[1].methods
            fns     == results[p].functions
        IN  /\ Len(methods) = Cardinality(DOMAIN fns)
            /\ \A f \in DOMAIN fns :
                   Cardinality({ m \in DOMAIN methods : methods[m].name = f }) = 1
            /\ \A m1, m2 \in DOMAIN methods :
                   fns[methods[m1].name] = fns[methods[m2].name]
                       => methods[m1].lines = methods[m2].lines

\* C5 witness: two Methods of functions with one start, with a line each
C5_Witness ==
    \E p \in DOMAIN packages :
        LET methods == packages[p].classes[1].methods
        IN  \E m1, m2 \in DOMAIN methods :
                /\ m1 # m2
                /\ results[p].functions[methods[m1].name]
                       = results[p].functions[methods[m2].name]
                /\ Len(methods[m1].lines) >= 1

\* what the classifier has to yield for number n of file r
Classified(r, n, l) ==
    /\ l.number = n
    /\ l.hits = (IF n \in DOMAIN r.lines THEN r.lines[n] ELSE 0)
    /\ (l.type = "Branch") = (n \in DOMAIN r.branches)
    /\ (l.type = "Plain") = (n \notin DOMAIN r.branches)
    /\ n \notin DOMAIN r.branches => l.conditions = <<>>
    /\ n \in DOMAIN r.branches =>
        /\ Len(l.conditions) = Len(r.branches[n])
        /\ \A i \in DOMAIN l.conditions :
            /\ l.conditions[i].number = i - 1
            /\ l.conditions[i].cond_type = "jump"
            /\ l.conditions[i].coverage = (IF r.branches[n][i] THEN 1 ELSE 0)

\* C6: line_from_number yields a Branch leaf exactly for the numbers with an
\* entry in the branches map and a Plain leaf otherwise; a Branch leaf has one
\* Condition per entry of the branch list, in order, numbered from 0, of type
\* jump, with coverage 1 for true and 0 for false; hits is the value of the
\* lines map, 0 for a number without one. It holds of every leaf of the built
\* tree and of the classifier on every number up to one past the last line.
C6_LineClassifier ==
    /\ \A p \in DOMAIN packages :
           \A i \in DOMAIN ClassLeaves(packages[p].classes[1]) :
               Classified(results[p], ClassLeaves(packages[p].classes[1])[i].number,
                          ClassLeaves(packages[p].classes[1])[i])
    /\ \A k \in DOMAIN results :
           \A n \in 0..end(results[k]) :
               Classified(results[k], n,
                   line_from_number(results[k].lines, results[k].branches, n))

\* C6 witness: the tree has a Branch leaf with a covered condition 0 and an
\* uncovered condition 1, and a Plain leaf
C6_Witness ==
    \E p \in DOMAIN packages :
        LET leaves == ClassLeaves(packages[p].classes[1])
        IN  /\ \E i \in DOMAIN leaves :
                /\ leaves[i].type = "Branch"
                /\ Len(leaves[i].conditions) = 2
                /\ leaves[i].conditions[1].coverage = 1
                /\ leaves[i].conditions[2].coverage = 0
                /\ leaves[i].conditions[2].number = 1
            /\ \E i \in DOMAIN leaves : leaves[i].type = "Plain"

\* every CoverageStats the export computes: of the root, the packages, the
\* classes and the methods
TreeStats ==
    {CoverageGetStats(coverage)}
    \cup { PackageGetStats(packages[p]) : p \in DOMAIN packages }
    \cup { ClassGetStats(packages[p].classes[1]) : p \in DOMAIN packages }
    \cup UNION { { MethodGetStats(packages[p].classes[1].methods[m]) :
                     m \in DOMAIN packages[p].classes[1].methods } :
                 p \in DOMAIN packages }

\* rate is covered / valid as a proper quotient, and exactly 0 for valid = 0
IsRate(rate, cov, valid) ==
    /\ rate.den > 0
    /\ valid > 0 => rate.num * valid = cov * rate.den
    /\ valid = 0 => rate = F64Zero

\* the start tags in the buffer that carry rate attributes
RateTags == { i \in DOMAIN buf :
                /\ buf[i].ev = "Start"
                /\ buf[i].name \in {"coverage", "package", "class", "method"} }

\* the rates of every CoverageStats with small counts
RatesOfSmallCounts ==
    \A c, v \in 0..(MaxLine + 1) :
        LET st == [lines_covered |-> c, lines_valid |-> v,
                   branches_covered |-> c, branches_valid |-> v, complexity |-> 0]
        IN  /\ IsRate(line_rate(st), c, v)
            /\ IsRate(branch_rate(st), c, v)

\* C7: line_rate and branch_rate are covered / valid when valid > 0 and exactly
\* 0 when valid = 0, for the stats of every node of the tree and for every
\* pair of small counts; no rate attribute in the buffer is the result of a
\* division by zero.
C7_RatesGuarded ==
    /\ \A st \in TreeStats :
        /\ IsRate(line_rate(st), st.lines_covered, st.lines_valid)
        /\ IsRate(branch_rate(st), st.branches_covered, st.branches_valid)
    /\ RatesOfSmallCounts
    /\ \A i \in RateTags :
        /\ buf[i].attrs.line_rate.den > 0
        /\ buf[i].attrs.branch_rate.den > 0

\* C7 witness: the buffer has a method without lines at rate 0, and a root
\* with lines and a rate above 0 but no branches
C7_Witness ==
    /\ \E i \in RateTags :
        /\ buf[i].name = "method"
        /\ buf[i + 1] = StartBare("lines") /\ buf[i + 2] = End("lines")
        /\ buf[i].attrs.line_rate = F64Zero
    /\ HeaderWritten
    /\ RootAttrs.lines_valid > 0 /\ RootAttrs.line_rate.num > 0
    /\ RootAttrs.branches_valid = 0 /\ RootAttrs.branch_rate = F64Zero

\* the events of the buffer as <<kind, name>>
Shape(events) == [i \in DOMAIN events |-> <<events[i].ev, events[i].name>>]

\* the document is built: the closing coverage tag is in the buffer
BuildComplete == Len(buf) > 0 /\ buf[Len(buf)] = End("coverage")

\* C8: for the empty input the export builds exactly the document with a root
\* of 0 lines and 0 branches at rates 0, the one source ".", and a packages
\* element without children, every element closed; nothing fails before the
\* sink is resolved, and on completion the sink holds that document.
C8_EmptyInput ==
    results = <<>> =>
        /\ pc \in {"resolve", "write", "done", "panicked"} =>
            /\ Shape(buf) = << <<"Decl", "1.0">>, <<"DocType", "coverage">>,
                               <<"Start", "coverage">>,
                               <<"Start", "sources">>, <<"Start", "source">>,
                               <<"Text", ".">>, <<"End", "source">>,
                               <<"End", "sources">>,
                               <<"Start", "packages">>, <<"End", "packages">>,
                               <<"End", "coverage">> >>
            /\ RootAttrs.lines_covered = 0 /\ RootAttrs.lines_valid = 0
            /\ RootAttrs.line_rate = F64Zero
            /\ RootAttrs.branches_covered = 0 /\ RootAttrs.branches_valid = 0
            /\ RootAttrs.branch_rate = F64Zero
        /\ pc = "done" => sink.bytes = buf

\* C8 witness: the export of the empty input has completed
C8_Witness == results = <<>> /\ pc = "done" /\ Len(sink.bytes) = 11

\* --- the nesting of the tags
\* may an element named child be opened inside parent, whose children so far
\* are kids (branch: the parent is a line with branch="true")
MayOpen(parent, kids, branch, child) ==
    CASE parent = "coverage"   -> \/ kids = <<>> /\ child = "sources"
                                  \/ kids = <<"sources">> /\ child = "packages"
      [] parent = "sources"    -> child = "source"
      [] parent = "packages"   -> child = "package"
      [] parent = "package"    -> kids = <<>> /\ child = "classes"
      [] parent = "classes"    -> kids = <<>> /\ child = "class"
      [] parent = "class"      -> \/ kids = <<>> /\ child = "methods"
                                  \/ kids = <<"methods">> /\ child = "lines"
      [] parent = "methods"    -> child = "method"
      [] parent = "method"     -> kids = <<>> /\ child = "lines"
      [] parent = "lines"      -> child = "line"
      [] parent = "line"       -> branch /\ kids = <<>> /\ child = "conditions"
      [] parent = "conditions" -> child = "condition"
      [] OTHER                 -> FALSE

\* may an element be closed with the children kids
MayClose(name, kids, branch) ==
    CASE name = "coverage" -> kids = <<"sources", "packages">>
      [] name = "package"  -> kids = <<"classes">>
      [] name = "classes"  -> kids = <<"class">>
      [] name = "class"    -> kids = <<"methods", "lines">>
      [] name = "method"   -> kids = <<"lines">>
      [] name = "line"     -> kids = (IF branch THEN <<"conditions">> ELSE <<>>)
      [] OTHER             -> TRUE

\* the stack with one more child recorded at its top
AddKid(stack, child) ==
    IF stack = <<>> THEN stack
    ELSE [stack EXCEPT ![Len(stack)].kids =
             IF Len(@) < 2 THEN Append(@, child) ELSE @]

RECURSIVE Nest(_, _, _, _)
\* replay events i.. against the stack of open elements; roots counts the
\* root elements seen; the result says whether every event was allowed
Nest(events, i, stack, roots) ==
    IF i > Len(events) THEN [ok |-> TRUE, stack |-> stack, roots |-> roots]
    ELSE LET e   == events[i]
             top == stack[Len(stack)]
             bad == [ok |-> FALSE, stack |-> stack, roots |-> roots]
         IN  CASE e.ev = "Decl"    -> IF i = 1 THEN Nest(events, i + 1, stack, roots) ELSE bad
               [] e.ev = "DocType" -> IF i = 2 THEN Nest(events, i + 1, stack, roots) ELSE bad
               [] e.ev = "Text"    ->
                    IF stack # <<>> /\ top.name = "source"
                    THEN Nest(events, i + 1, stack, roots) ELSE bad
               [] e.ev = "Empty"   ->
                    IF stack # <<>> /\ e.name = "condition"
                          /\ MayOpen(top.name, top.kids, top.branch, e.name)
                    THEN Nest(events, i + 1, AddKid(stack, e.name), roots) ELSE bad
               [] e.ev = "Start"   ->
                    IF \/ stack = <<>> /\ roots = 0 /\ e.name = "coverage" /\ i = 3
                       \/ stack # <<>> /\ MayOpen(top.name, top.kids, top.branch, e.name)
                    THEN Nest(events, i + 1,
                             Append(AddKid(stack, e.name),
                                    [name   |-> e.name,
                                     kids   |-> <<>>,
                                     branch |-> /\ e.name = "line"
                                                /\ "branch" \in DOMAIN e.attrs]),
                             IF stack = <<>> THEN roots + 1 ELSE roots)
                    ELSE bad
               [] e.ev = "End"     ->
                    IF stack # <<>> /\ top.name = e.name
                          /\ MayClose(top.name, top.kids, top.branch)
                    THEN Nest(events, i + 1, SubSeq(stack, 1, Len(stack) - 1), roots)
                    ELSE bad
               [] OTHER -> bad

\* C9: the tags in the buffer are well nested at every step: an end tag closes
\* the innermost open element, which has the same name; the elements nest as
\* coverage > (sources > source*, packages > package* > classes > class >
\* (methods > method* > lines > line*, then lines > line*)), a line holding
\* conditions > condition* exactly when it is a branch; once the closing
\* coverage tag is written no element is open.
C9_WellNested ==
    LET n == Nest(buf, 1, <<>>, 0)
    IN  /\ n.ok
        /\ pc \in {"resolve", "write", "done"} =>
               n.stack = <<>> /\ n.roots = 1 /\ BuildComplete
        /\ BuildComplete => n.stack = <<>>
        /\ pc = "methods" => n.stack[Len(n.stack)].name = "methods"

\* C9 witness: a finished document with two packages, a method with a branch
\* line, and a class with an orphan line after its methods
C9_Witness ==
    /\ pc = "resolve"
    /\ Len(packages) = 2
    /\ \E i \in DOMAIN buf :
        /\ buf[i] = End("methods")
        /\ buf[i + 1] = StartBare("lines")
        /\ buf[i + 2].name = "line" /\ buf[i + 2].ev = "Start"
    /\ \E i \in DOMAIN buf : buf[i].ev = "Empty"

TagIdx(name) ==
    SelectSeq([i \in 1..Len(buf) |-> i],
              LAMBDA i : buf[i].ev = "Start" /\ buf[i].name = name)

\* the methods of the tree in document order
AllMethods ==
    Flatten([p \in 1..Len(packages) |-> packages[p].classes[1].methods])

\* the rate attributes written for a node are those of stats
SameRates(attrs, stats) ==
    /\ attrs.line_rate = line_rate(stats)
    /\ attrs.branch_rate = branch_rate(stats)
    /\ attrs.complexity = stats.complexity

\* C11: get_stats is a pure function of the subtree: the stats the export
\* computed for a node when it wrote the node's tag are the stats get_stats
\* returns for that node in every later state (the tree is as it was), for
\* the root, every package, class and method; complexity is 0 at every
\* level.
C11_StatsRepeatable ==
    LET packageTags == TagIdx("package")
        classTags   == TagIdx("class")
        methodTags  == TagIdx("method")
        methods     == AllMethods
    IN  /\ HeaderWritten => RootAttrs = CoverageAttrs(CoverageGetStats(coverage))
        /\ \A k \in DOMAIN packageTags :
               SameRates(buf[packageTags[k]].attrs, PackageGetStats(packages[k]))
        /\ \A k \in DOMAIN classTags :
               SameRates(buf[classTags[k]].attrs, ClassGetStats(packages[k].classes[1]))
        /\ \A k \in DOMAIN methodTags :
               SameRates(buf[methodTags[k]].attrs, MethodGetStats(methods[k]))
        /\ \A st \in TreeStats : st.complexity = 0
        /\ \A i \in RateTags : buf[i].attrs.complexity = 0

\* C11 witness: a finished document of two packages with the tag of a method
\* that has a covered line and a covered condition
C11_Witness ==
    /\ pc = "resolve"
    /\ Len(packages) = 2
    /\ \E k \in DOMAIN TagIdx("method") :
        /\ buf[TagIdx("method")[k]].attrs.line_rate.num > 0
        /\ buf[TagIdx("method")[k]].attrs.branch_rate.num > 0

\* the line numbers of a line list
Numbers(lines) == [i \in 1..Len(lines) |-> lines[i].number]

\* the exclusive end of a function starting at start: the smallest start of
\* the file greater than it, else one past the last line
RangeEnd(r, start) ==
    IF { s \in FunctionStarts(r) : s > start } # {}
    THEN Min({ s \in FunctionStarts(r) : s > start })
    ELSE Max(DOMAIN r.lines) + 1

\* the lines of the map in [start, RangeEnd), ascending
RangeNumbers(r, start) ==
    IF DOMAIN r.lines = {} THEN <<>>
    ELSE Ascending({ n \in DOMAIN r.lines : start <= n /\ n < RangeEnd(r, start) })

\* C12: the line list of every Method is the ascending list of the line
\* numbers n of the lines map with start <= n < end, end being the smallest
\* start of the file strictly greater than the function's start, or the last
\* line number + 1 when there is none; a function starting after every line
\* has an empty list.
C12_MethodLineRange ==
    \A p \in DOMAIN packages :
        \A m \in DOMAIN packages[p].classes[1].methods :
            LET method == packages[p].classes[1].methods[m]
                start  == results[p].functions[method.name]
            IN  /\ Numbers(method.lines) = RangeNumbers(results[p], start)
                /\ (\A n \in DOMAIN results[p].lines : n < start)
                       => method.lines = <<>>

\* C12 witness: a Class with a Method of two lines that ends at the next
\* start, where the map has a line, and a Method without lines that starts
\* after the last line
C12_Witness ==
    \E p \in DOMAIN packages :
        LET methods == packages[p].classes[1].methods
            r       == results[p]
        IN  /\ \E m \in DOMAIN methods :
                /\ Len(methods[m].lines) = 2
                /\ RangeEnd(r, r.functions[methods[m].name]) \in FunctionStarts(r)
                /\ RangeEnd(r, r.functions[methods[m].name]) \in DOMAIN r.lines
            /\ \E m \in DOMAIN methods :
                /\ methods[m].lines = <<>>
                /\ r.functions[methods[m].name] > Max(DOMAIN r.lines)

\* the lines of the map before the first function start, ascending; all of
\* them for a file without functions
OrphanNumbers(r) ==
    Ascending({ n \in DOMAIN r.lines :
                  DOMAIN r.functions = {} \/ n < Min(FunctionStarts(r)) })

\* C13: whatever the iteration order of the function map, the orphan list of
\* the Class is the ascending list of the line numbers of the lines map that
\* are smaller than the smallest function start, all line numbers when the
\* file has no functions; no line at or after the first start is an orphan.
C13_OrphansBeforeFirstStart ==
    \A p \in DOMAIN packages :
        LET class == packages[p].classes[1]
        IN  /\ Numbers(class.lines) = OrphanNumbers(results[p])
            /\ \A i \in DOMAIN class.lines :
                   \A f \in DOMAIN results[p].functions :
                       class.lines[i].number < results[p].functions[f]

\* C13 witness: a Class with an orphan line whose two Methods have lines and
\* were built with the later start first
C13_Witness ==
    \E p \in DOMAIN packages :
        LET class == packages[p].classes[1]
        IN  /\ Len(class.lines) >= 1
            /\ Len(class.methods) = 2
            /\ Len(class.methods[1].lines) >= 1
            /\ Len(class.methods[2].lines) >= 1
            /\ results[p].functions[class.methods[1].name]
                   > results[p].functions[class.methods[2].name]

====
